---- MODULE Spec2Model ----
(***************************************************************************)
(* The mirror registry (class MirrorManager) of shadow-translate-bridge.   *)
(*                                                                         *)
(* The repository holds two builds of the registry:                        *)
(*   "index"    src/src/index.tsx      text mirrors only, tables           *)
(*                                     valueToMirror / idToValue           *)
(*   "part_001" src/unnamed/part_001   text and html mirrors, tables       *)
(*                                     valueToMirror / idToEntry           *)
(* The variable `variant` is fixed in Init and selects the build whose     *)
(* statements every operator below follows.                                *)
(*                                                                         *)
(* Maps of the code are functions with a finite domain; MirrorEntry        *)
(* objects live in `entries`, addressed by an object reference (the        *)
(* mirror id the object was created with), so that the aliasing between    *)
(* valueToMirror and idToEntry is the aliasing of the code.                *)
(***************************************************************************)
EXTENDS Integers, Sequences, FiniteSets, TLC

\* bounds of the model
MaxInstances == 2
MaxMirrors == 2
MaxPending == 1
MaxObservers == 3
MaxBatch == 2

Variants == {"index", "part_001"}
Values == {"", "a"}
Callbacks == {"cb1", "cb2"}
Options == {"none", "html"}

\* what the external mechanism writes into a mirror
Translations == {"b"}

\* an instance id that uuidv4 never issues
UnknownId == 0

VARIABLES
  variant,             \* which build of MirrorManager runs
  observers,           \* Map<mirrorId, Set<TranslationCallback>>
  valueToMirror,       \* Map<key, MirrorEntry>  (key -> object reference)
  idToEntry,           \* part_001: Map<mirrorId, MirrorEntry> (id -> object reference)
  idToValue,           \* index: Map<mirrorId, string>
  entries,             \* the MirrorEntry objects, by reference
  instanceToMirror,    \* Map<instanceId, mirrorId>
  instanceToCallback,  \* Map<instanceId, TranslationCallback>
  instanceToMode,      \* part_001: Map<instanceId, TranslateMode>
  container,           \* children of the container element, in document order
  nextMirror,          \* uuidv4: number of the next mirror id
  nextInstance,        \* uuidv4: number of the next instance id
  held,                \* the owners' side: id -> the [mode, value, cb] it was registered
                       \* with, for every id an owner got from register and has not
                       \* unregistered or seen cleared
  lastOp,              \* history: the last call on the registration API
  recording,           \* whether the run follows the MutationObserver's records (the
                       \* specifications about the tables alone leave them out)
  containerRecords,    \* whether the run also follows the records whose target is the
                       \* container itself (they resolve to no mirror)
  pending,             \* mutation records the MutationObserver has not yet delivered
  delivered,           \* the callback invocations the last step made
  mounted,             \* a TranslationBridgeProvider is mounted
  inDocument,          \* number of elements with the id shadow-translate-bridge-mirror
                       \* that are children of document.body
  observing,           \* number of MutationObservers observing the container
  other                \* a second MirrorManager on the same container: << >>, or the
                       \* one record of its tables and of what its owners hold; the
                       \* variables above then are the manager whose owner calls

vars == <<variant, observers, valueToMirror, idToEntry, idToValue, entries,
          instanceToMirror, instanceToCallback, instanceToMode, container,
          nextMirror, nextInstance, held, lastOp,
          recording, containerRecords, pending, delivered, mounted, inDocument,
          observing, other>>

\* the MutationObserver's side and the Provider's side of the state
notifier == <<recording, containerRecords, pending, delivered>>

provider == <<mounted, inDocument, observing, other>>

----------------------------------------------------------------------------
\* Map primitives

EmptyMap == [x \in {} |-> 0]

Has(m, k) == k \in DOMAIN m

MapSet(m, k, v) == [x \in (DOMAIN m) \cup {k} |-> IF x = k THEN v ELSE m[x]]

MapDelete(m, k) == [x \in (DOMAIN m) \ {k} |-> m[x]]

Range(m) == {m[x] : x \in DOMAIN m}

----------------------------------------------------------------------------
\* The registry as one value, so that a handler is a function from state to state

Mgr ==
  [variant |-> variant, observers |-> observers, valueToMirror |-> valueToMirror,
   idToEntry |-> idToEntry, idToValue |-> idToValue, entries |-> entries,
   instanceToMirror |-> instanceToMirror, instanceToCallback |-> instanceToCallback,
   instanceToMode |-> instanceToMode, container |-> container,
   nextMirror |-> nextMirror, nextInstance |-> nextInstance]

\* `${mode}:${value}` in part_001; the value itself in index
getValueKey(v, mode, value) ==
  IF v = "part_001" THEN mode \o ":" \o value ELSE value

\* options?.mode === "html" ? "html" : "text"; index has no modes
getTranslateMode(v, opt) ==
  IF v = "part_001" /\ opt = "html" THEN "html" ELSE "text"

\* a string in a JavaScript condition: "" is falsy
Truthy(str) == str # ""

----------------------------------------------------------------------------
\* The document: a mirror element is [mirrorId, children]; children are the
\* nodes of its content in document order (tags, text nodes, leaf wrappers)

HTML_SKIP_TAGS == {"SCRIPT", "STYLE", "NOSCRIPT"}

TextNode(str) == [kind |-> "text", id |-> -1, s |-> str]

\* `${HTML_TEXT_PLACEHOLDER_PREFIX}${i}${HTML_TEXT_PLACEHOLDER_SUFFIX}`
Placeholder(i) == "__STB_TEXT_" \o ToString(i) \o "__"

\* text.trim() is empty
IsBlank(str) == str \in {"", " "}

OpenTag(tag) == [kind |-> "open", id |-> -1, s |-> tag]

CloseTag(tag) == [kind |-> "close", id |-> -1, s |-> tag]

\* the markup values of the model, each with the body DOMParser builds for it
\* (the nodes in document order, tags by their tagName); a document DOMParser
\* creates has scripting disabled, so the content of noscript is parsed into
\* elements, while the content of script is raw text
MarkupSources ==
  { [value |-> "<b>Hello</b> world",
     body |-> << OpenTag("B"), TextNode("Hello"), CloseTag("B"), TextNode(" world") >>],
    [value |-> "<i>Hi</i> <script>x</script>",
     body |-> << OpenTag("I"), TextNode("Hi"), CloseTag("I"), TextNode(" "),
                 OpenTag("SCRIPT"), TextNode("x"), CloseTag("SCRIPT") >>],
    [value |-> "<noscript><b>x</b></noscript>y",
     body |-> << OpenTag("NOSCRIPT"), OpenTag("B"), TextNode("x"), CloseTag("B"),
                 CloseTag("NOSCRIPT"), TextNode("y") >>] }

MarkupValues == {d.value : d \in MarkupSources}

\* DOMParser.parseFromString(value, "text/html").body, for the values of the model:
\* a value without a tag gives one text node, or nothing when it is empty
Parse(value) ==
  IF value \in MarkupValues
  THEN (CHOOSE d \in MarkupSources : d.value = value).body
  ELSE IF value = "" THEN << >> ELSE << TextNode(value) >>

\* the characters of a string: a run of characters that no conversion below
\* looks at is kept as one piece
Chars(str) ==
  CASE str = "" -> << >>
    [] str = "a<b" -> << "a", "<", "b" >>
    [] str = "R&D" -> << "R", "&", "D" >>
    [] OTHER -> << str >>

RECURSIVE Join(_)
\* the string a sequence of pieces spells
Join(pieces) == IF pieces = << >> THEN "" ELSE Head(pieces) \o Join(Tail(pieces))

RECURSIVE ReplaceAll(_, _, _)
\* String.replace(/c/g, to) on a sequence of pieces
ReplaceAll(pieces, c, to) ==
  IF pieces = << >> THEN << >>
  ELSE (IF Head(pieces) = c THEN to ELSE << Head(pieces) >>)
       \o ReplaceAll(Tail(pieces), c, to)

\* escapeHtml: the five replacements in the order of the code
escapeHtml(pieces) ==
  LET r1 == ReplaceAll(pieces, "&", << "&", "amp;" >>)
      r2 == ReplaceAll(r1, "<", << "&", "lt;" >>)
      r3 == ReplaceAll(r2, ">", << "&", "gt;" >>)
      r4 == ReplaceAll(r3, "\"", << "&", "quot;" >>)
  IN ReplaceAll(r4, "'", << "&", "#39;" >>)

\* the tag name as innerHTML writes it
LowerCase(tag) ==
  CASE tag = "B" -> "b" [] tag = "I" -> "i" [] tag = "SCRIPT" -> "script"
    [] tag = "STYLE" -> "style" [] tag = "NOSCRIPT" -> "noscript" [] OTHER -> tag

\* el.innerText = value
SetInnerText(value) == IF value = "" THEN << >> ELSE << TextNode(value) >>

RECURSIVE InnerText(_)
\* el.innerText
InnerText(children) ==
  IF children = << >> THEN ""
  ELSE (IF Head(children).kind \in {"text", "span"} THEN Head(children).s ELSE "")
       \o InnerText(Tail(children))

RECURSIVE OpenTags(_, _)
\* the tags open after the first n nodes of a serialised tree
OpenTags(nodes, n) ==
  IF n = 0 THEN << >>
  ELSE LET st == OpenTags(nodes, n - 1)
           t == nodes[n]
       IN IF t.kind = "open" THEN Append(st, t.s)
          ELSE IF t.kind = "close" /\ Len(st) > 0 THEN SubSeq(st, 1, Len(st) - 1)
          ELSE st

\* textNode.parentElement.tagName
ParentTag(nodes, i) ==
  LET st == OpenTags(nodes, i - 1) IN IF st = << >> THEN "BODY" ELSE st[Len(st)]

RECURSIVE collectFrom(_, _)
collectFrom(nodes, i) ==
  IF i > Len(nodes) THEN << >>
  ELSE (IF /\ nodes[i].kind = "text"
           /\ ParentTag(nodes, i) \notin HTML_SKIP_TAGS
           /\ ~IsBlank(nodes[i].s)
        THEN << i >> ELSE << >>) \o collectFrom(nodes, i + 1)

\* the positions, in document order, of the text nodes offered for translation
collectTranslatableTextNodes(nodes) == collectFrom(nodes, 1)

IndexIn(seq, x) == CHOOSE k \in 1..Len(seq) : seq[k] = x

InSeq(seq, x) == \E k \in 1..Len(seq) : seq[k] = x

RECURSIVE SerializeFrom(_, _)
SerializeFrom(nodes, i) ==
  IF i > Len(nodes) THEN << >>
  ELSE LET n == nodes[i]
           raw == ParentTag(nodes, i) \in {"SCRIPT", "STYLE"}
       IN (CASE n.kind = "open" -> << "<" \o LowerCase(n.s) \o ">" >>
             [] n.kind = "close" -> << "</" \o LowerCase(n.s) \o ">" >>
             [] OTHER -> IF raw THEN Chars(n.s)
                         ELSE ReplaceAll(ReplaceAll(ReplaceAll(Chars(n.s),
                                "&", << "&", "amp;" >>), "<", << "&", "lt;" >>),
                                ">", << "&", "gt;" >>))
          \o SerializeFrom(nodes, i + 1)

\* body.innerHTML: the pieces of the string the nodes serialise to
innerHTML(nodes) == SerializeFrom(nodes, 1)

buildHtmlMirror(value) ==
  LET base == Parse(value)
      mirrorTextNodes == collectTranslatableTextNodes(base)
      templateTextNodes == collectTranslatableTextNodes(base)
      count == IF Len(mirrorTextNodes) < Len(templateTextNodes)
               THEN Len(mirrorTextNodes) ELSE Len(templateTextNodes)
      taken == SubSeq(mirrorTextNodes, 1, count)
  IN [htmlWithSpans |->
        [p \in 1..Len(base) |->
           IF InSeq(taken, p)
           THEN [kind |-> "span", id |-> IndexIn(taken, p) - 1, s |-> base[p].s]
           ELSE base[p]],
      template |->
        innerHTML([p \in 1..Len(base) |->
                     IF InSeq(taken, p)
                     THEN TextNode(Placeholder(IndexIn(taken, p) - 1))
                     ELSE base[p]]),
      textCount |-> count]

\* mirrorElement.querySelectorAll("[data-stb-text-id]"): the positions of the
\* leaf wrappers among the children
LeafWrappers(children) == SelectSeq([p \in 1..Len(children) |-> p],
                                    LAMBDA p : children[p].kind = "span")

RECURSIVE FillFrom(_, _, _, _)
\* textNodes.forEach: translatedTextList[id] = node.innerText || ""
FillFrom(list, children, wrappers, k) ==
  IF k > Len(wrappers) THEN list
  ELSE LET node == children[wrappers[k]]
           id == node.id
           grown == IF id + 1 > Len(list)
                    THEN list \o [j \in 1..(id + 1 - Len(list)) |-> ""]
                    ELSE list
       IN FillFrom([grown EXCEPT ![id + 1] = node.s], children, wrappers, k + 1)

RECURSIVE SubstituteFrom(_, _, _)
\* result.split(placeholder).join(escapeHtml(translatedTextList[i] || "")), for
\* i, i + 1, ...
SubstituteFrom(result, list, i) ==
  IF i >= Len(list) THEN result
  ELSE SubstituteFrom(ReplaceAll(result, Placeholder(i), escapeHtml(Chars(list[i + 1]))),
                      list, i + 1)

\* buildTranslatedHtml(mirrorElement, entry): the string delivered for a mirror
\* in html mode
buildTranslatedHtml(children, entry) ==
  IF entry.template = << >> THEN InnerText(children)
  ELSE LET count == IF entry.textCount >= 0 THEN entry.textCount
                    ELSE Len(LeafWrappers(children))
           list == FillFrom([j \in 1..count |-> ""], children,
                            LeafWrappers(children), 1)
       IN Join(SubstituteFrom(entry.template, list, 0))

\* document.createElement + dataset.mirrorId + innerHTML / innerText
NewElement(v, mirrorId, mode, value) ==
  [mirrorId |-> mirrorId,
   children |-> IF mode = "html" THEN buildHtmlMirror(value).htmlWithSpans
                ELSE SetInnerText(value)]

\* container.querySelector(`[data-mirror-id="${mirrorId}"]`): position of the
\* first match, 0 when there is none
querySelector(cont, mirrorId) ==
  IF \E k \in 1..Len(cont) : cont[k].mirrorId = mirrorId
  THEN CHOOSE k \in 1..Len(cont) :
         /\ cont[k].mirrorId = mirrorId
         /\ \A j \in 1..(k - 1) : cont[j].mirrorId # mirrorId
  ELSE 0

\* el?.remove()
RemoveAt(cont, k) ==
  IF k = 0 THEN cont ELSE SubSeq(cont, 1, k - 1) \o SubSeq(cont, k + 1, Len(cont))

\* a MirrorEntry object
NewEntry(v, mirrorId, value, mode) ==
  [id |-> mirrorId, value |-> value, count |-> 1, mode |-> mode,
   template |-> IF mode = "html" THEN buildHtmlMirror(value).template ELSE << >>,
   textCount |-> IF mode = "html" THEN buildHtmlMirror(value).textCount ELSE -1]

\* objects no table refers to any more are gone
Collect(s) ==
  [s EXCEPT !.entries =
     [r \in (DOMAIN s.entries) \cap (Range(s.valueToMirror) \cup Range(s.idToEntry))
        |-> s.entries[r]]]

----------------------------------------------------------------------------
\* MirrorManager

\* the count <= 0 branch without el?.remove()
DestroyEntry_KeepsNode(s, ref, mirrorId) ==
  LET e == s.entries[ref]
      key == IF s.variant = "part_001" THEN getValueKey(s.variant, e.mode, e.value)
             ELSE s.idToValue[mirrorId]
  IN
  [s EXCEPT
     !.valueToMirror = MapDelete(@, key),
     !.idToEntry = IF s.variant = "part_001" THEN MapDelete(@, mirrorId) ELSE @,
     !.idToValue = IF s.variant = "index" THEN MapDelete(@, mirrorId) ELSE @,
     !.observers = MapDelete(@, mirrorId)]

\* the count <= 0 branch of detachInstance: the entry leaves the tables and its
\* element leaves the container
DestroyEntry(s, ref, mirrorId) ==
  LET e == s.entries[ref]
      key == IF s.variant = "part_001" THEN getValueKey(s.variant, e.mode, e.value)
             ELSE s.idToValue[mirrorId]
  IN
  [s EXCEPT
     !.valueToMirror = MapDelete(@, key),
     !.idToEntry = IF s.variant = "part_001" THEN MapDelete(@, mirrorId) ELSE @,
     !.idToValue = IF s.variant = "index" THEN MapDelete(@, mirrorId) ELSE @,
     !.observers = MapDelete(@, mirrorId),
     !.container = RemoveAt(@, querySelector(@, mirrorId))]

\* entry.count -= 1; if (entry.count <= 0) { ... }
ReleaseEntry(s, ref, mirrorId) ==
  LET s1 == [s EXCEPT !.entries[ref].count = @ - 1] IN
  IF s1.entries[ref].count <= 0 THEN DestroyEntry(s1, ref, mirrorId) ELSE s1

\* the entry object detachInstance works on: 0 when the lookups give none.
\* part_001: idToEntry.get(mirrorId).  index: idToValue.get(mirrorId), which must
\* be truthy, then valueToMirror.get(mirrorValue).
DetachTarget(s, mirrorId) ==
  IF s.variant = "part_001"
  THEN (IF Has(s.idToEntry, mirrorId) THEN s.idToEntry[mirrorId] ELSE 0)
  ELSE IF /\ Has(s.idToValue, mirrorId)
          /\ Truthy(s.idToValue[mirrorId])
          /\ Has(s.valueToMirror, s.idToValue[mirrorId])
       THEN s.valueToMirror[s.idToValue[mirrorId]]
       ELSE 0

\* observerSet?.delete(callback); if (observerSet && observerSet.size === 0) ...
DropCallback(obs, mirrorId, callback) ==
  IF ~Has(obs, mirrorId) THEN obs
  ELSE IF obs[mirrorId] \ {callback} = {} THEN MapDelete(obs, mirrorId)
  ELSE [obs EXCEPT ![mirrorId] = @ \ {callback}]

\* detachInstance that leaves the instance tables as they are
detachInstance_KeepsInstance(s, instanceId, mirrorId, callback) ==
  LET ref == DetachTarget(s, mirrorId)
      s1 == IF ref # 0 THEN ReleaseEntry(s, ref, mirrorId) ELSE s
  IN [s1 EXCEPT !.observers = DropCallback(@, mirrorId, callback)]

detachInstance(s, instanceId, mirrorId, callback) ==
  LET ref == DetachTarget(s, mirrorId)
      s1 == IF ref # 0 THEN ReleaseEntry(s, ref, mirrorId) ELSE s
  IN [s1 EXCEPT
        !.observers = DropCallback(@, mirrorId, callback),
        !.instanceToMirror = MapDelete(@, instanceId),
        !.instanceToCallback = MapDelete(@, instanceId),
        !.instanceToMode = MapDelete(@, instanceId)]

\* observers.get(id)?.add(callback)
AddCallback(obs, mirrorId, callback) ==
  IF Has(obs, mirrorId) THEN [obs EXCEPT ![mirrorId] = @ \cup {callback}] ELSE obs

\* `stb-i-${uuidv4()}` and the instance tables of register
BindNewInstance(s, mirrorId, onChange, mode) ==
  [s EXCEPT
     !.instanceToMirror = MapSet(@, s.nextInstance, mirrorId),
     !.instanceToCallback = MapSet(@, s.nextInstance, onChange),
     !.instanceToMode = IF s.variant = "part_001"
                        THEN MapSet(@, s.nextInstance, mode) ELSE @,
     !.nextInstance = @ + 1]

\* a new MirrorEntry, its tables and its element appended to the container
\* (register's miss path and the last path of updateValue)
CreateMirror(s, value, mode, callback) ==
  LET mirrorId == s.nextMirror IN
  [s EXCEPT
     !.entries = MapSet(@, mirrorId, NewEntry(s.variant, mirrorId, value, mode)),
     !.valueToMirror = MapSet(@, getValueKey(s.variant, mode, value), mirrorId),
     !.idToEntry = IF s.variant = "part_001" THEN MapSet(@, mirrorId, mirrorId) ELSE @,
     !.idToValue = IF s.variant = "index" THEN MapSet(@, mirrorId, value) ELSE @,
     !.observers = MapSet(@, mirrorId, {callback}),
     !.container = Append(@, NewElement(s.variant, mirrorId, mode, value)),
     !.nextMirror = @ + 1]

\* the dedup hit of register
RegisterExisting(s, ref, onChange, mode) ==
  LET id == s.entries[ref].id
      s1 == [s EXCEPT !.entries[ref].count = @ + 1,
                      !.observers = AddCallback(@, id, onChange)]
  IN BindNewInstance(s1, id, onChange, mode)

\* register without the lookup in the dedup table
register_NoDedup(s, value, onChange, opt) ==
  LET mode == getTranslateMode(s.variant, opt) IN
  BindNewInstance(CreateMirror(s, value, mode, onChange), s.nextMirror, onChange, mode)

\* register: the state after the call; the id returned is s.nextInstance
register(s, value, onChange, opt) ==
  LET mode == getTranslateMode(s.variant, opt)
      key == getValueKey(s.variant, mode, value)
  IN IF Has(s.valueToMirror, key)
     THEN RegisterExisting(s, s.valueToMirror[key], onChange, mode)
     ELSE BindNewInstance(CreateMirror(s, value, mode, onChange),
                          s.nextMirror, onChange, mode)

\* the entry object updateValue reads as currentEntry: 0 when there is none.
\* part_001: idToEntry.get(mirrorId).  index: currentValue ?
\* valueToMirror.get(currentValue) : undefined.
CurrentEntry(s, mirrorId) ==
  IF s.variant = "part_001"
  THEN (IF Has(s.idToEntry, mirrorId) THEN s.idToEntry[mirrorId] ELSE 0)
  ELSE IF /\ Has(s.idToValue, mirrorId)
          /\ Truthy(s.idToValue[mirrorId])
          /\ Has(s.valueToMirror, s.idToValue[mirrorId])
       THEN s.valueToMirror[s.idToValue[mirrorId]]
       ELSE 0

\* updateValue without its early return on an unchanged value
SameAsCurrent_Never(s, mirrorId, newValue) == FALSE

\* currentValue === newValue (currentValue may be undefined)
SameAsCurrent(s, mirrorId, newValue) ==
  IF s.variant = "part_001"
  THEN Has(s.idToEntry, mirrorId) /\ s.entries[s.idToEntry[mirrorId]].value = newValue
  ELSE Has(s.idToValue, mirrorId) /\ s.idToValue[mirrorId] = newValue

\* instanceToMode.get(instanceId) || "text"
InstanceMode(s, instanceId) ==
  IF s.variant = "part_001" /\ Has(s.instanceToMode, instanceId)
  THEN s.instanceToMode[instanceId] ELSE "text"

\* updateValue, first path: an entry for the new key exists
Reattach(s, instanceId, mirrorId, callback, target) ==
  LET s1 == detachInstance(s, instanceId, mirrorId, callback)
      t == s1.entries[target]
  IN [s1 EXCEPT
        !.entries[target].count = @ + 1,
        !.observers = AddCallback(@, t.id, callback),
        !.instanceToMirror = MapSet(@, instanceId, t.id),
        !.instanceToMode = IF s.variant = "part_001"
                           THEN MapSet(@, instanceId, t.mode) ELSE @]

\* the element of the sole-owner path after its re-render
Rerender(s, el, mode, newValue) ==
  IF s.variant = "part_001" /\ mode = "html"
  THEN [el EXCEPT !.children = buildHtmlMirror(newValue).htmlWithSpans]
  ELSE IF InnerText(el.children) # newValue
       THEN [el EXCEPT !.children = SetInnerText(newValue)]
       ELSE el

\* the in-place path without valueToMirror.delete of the old key
UpdateInPlace_KeepsOldKey(s, mirrorId, mode, cur, newValue) ==
  LET e == s.entries[cur]
      k == querySelector(s.container, mirrorId)
      html == s.variant = "part_001" /\ mode = "html" /\ k # 0
      built == buildHtmlMirror(newValue)
  IN [s EXCEPT
        !.container = IF k = 0 THEN @
                      ELSE [@ EXCEPT ![k] = Rerender(s, @, mode, newValue)],
        !.entries[cur] = [@ EXCEPT !.value = newValue,
                                   !.template = IF html THEN built.template ELSE @,
                                   !.textCount = IF html THEN built.textCount ELSE @],
        !.valueToMirror = MapSet(@, getValueKey(s.variant, e.mode, newValue), cur),
        !.idToValue = IF s.variant = "index" THEN MapSet(@, mirrorId, newValue) ELSE @]

\* updateValue, second path: the instance's entry has count 1 and is changed in place
UpdateInPlace(s, mirrorId, mode, cur, newValue) ==
  LET e == s.entries[cur]
      k == querySelector(s.container, mirrorId)
      html == s.variant = "part_001" /\ mode = "html" /\ k # 0
      built == buildHtmlMirror(newValue)
  IN [s EXCEPT
        !.container = IF k = 0 THEN @
                      ELSE [@ EXCEPT ![k] = Rerender(s, @, mode, newValue)],
        !.entries[cur] = [@ EXCEPT !.value = newValue,
                                   !.template = IF html THEN built.template ELSE @,
                                   !.textCount = IF html THEN built.textCount ELSE @],
        !.valueToMirror =
           MapSet(MapDelete(@, getValueKey(s.variant, e.mode, e.value)),
                  getValueKey(s.variant, e.mode, newValue), cur),
        !.idToValue = IF s.variant = "index" THEN MapSet(@, mirrorId, newValue) ELSE @]

\* updateValue, last path: leave the shared entry, create a mirror for the new value
Fork(s, instanceId, mirrorId, callback, mode, newValue) ==
  LET s1 == detachInstance(s, instanceId, mirrorId, callback)
      s2 == CreateMirror(s1, newValue, mode, callback)
  IN [s2 EXCEPT
        !.instanceToMirror = MapSet(@, instanceId, s1.nextMirror),
        !.instanceToMode = IF s.variant = "part_001"
                           THEN MapSet(@, instanceId, mode) ELSE @]

\* which path updateValue takes
UpdatePath(s, instanceId, newValue) ==
  IF ~Has(s.instanceToMirror, instanceId) THEN "unknown"
  ELSE LET mirrorId == s.instanceToMirror[instanceId]
           mode == InstanceMode(s, instanceId)
           cur == CurrentEntry(s, mirrorId)
       IN IF SameAsCurrent(s, mirrorId, newValue) THEN "same"
          ELSE IF ~Has(s.instanceToCallback, instanceId) THEN "nocallback"
          ELSE IF Has(s.valueToMirror, getValueKey(s.variant, mode, newValue))
               THEN "reattach"
          ELSE IF cur # 0 /\ s.entries[cur].count = 1 THEN "inplace"
          ELSE "fork"

updateValue(s, instanceId, newValue) ==
  LET path == UpdatePath(s, instanceId, newValue) IN
  IF path \in {"unknown", "same", "nocallback"} THEN s
  ELSE LET mirrorId == s.instanceToMirror[instanceId]
           mode == InstanceMode(s, instanceId)
           callback == s.instanceToCallback[instanceId]
       IN CASE path = "reattach" ->
                 Reattach(s, instanceId, mirrorId, callback,
                          s.valueToMirror[getValueKey(s.variant, mode, newValue)])
            [] path = "inplace" ->
                 UpdateInPlace(s, mirrorId, mode, CurrentEntry(s, mirrorId), newValue)
            [] OTHER -> Fork(s, instanceId, mirrorId, callback, mode, newValue)

unregister(s, instanceId) ==
  IF ~Has(s.instanceToMirror, instanceId) \/ ~Has(s.instanceToCallback, instanceId)
  THEN s
  ELSE detachInstance(s, instanceId, s.instanceToMirror[instanceId],
                      s.instanceToCallback[instanceId])

\* a clear that forgets the instance tables
clearTranslateBridge_KeepsInstances(s) ==
  [s EXCEPT
     !.observers = EmptyMap, !.valueToMirror = EmptyMap, !.idToEntry = EmptyMap,
     !.idToValue = EmptyMap, !.container = << >>]

clearTranslateBridge(s) ==
  [s EXCEPT
     !.observers = EmptyMap, !.valueToMirror = EmptyMap, !.idToEntry = EmptyMap,
     !.idToValue = EmptyMap, !.instanceToMirror = EmptyMap,
     !.instanceToCallback = EmptyMap, !.instanceToMode = EmptyMap,
     !.container = << >>]

----------------------------------------------------------------------------
\* TranslationBridgeProvider and the hooks

\* api.register of the Provider: (val, cb) => manager.register(val, cb); a third
\* argument is not passed on
api_register(s, val, cb, options) == register(s, val, cb, "none")

\* useContext(BridgeContext): null outside a Provider
Bridges == {"null", "api"}

\* useShadowTranslation without the return when there is no bridge
useShadowTranslation_NoGuard(s, bridge, value, onChange, options) ==
  LET s1 == api_register(s, value, onChange, options)
  IN updateValue(s1, s.nextInstance, value)

\* useShadowTranslation when its owner mounts: the warning and the return
\* without a bridge, else the first effect (the second effect's updateValue with
\* the value just registered returns at once)
useShadowTranslation(s, bridge, value, onChange, options) ==
  IF bridge = "null" THEN s
  ELSE LET s1 == api_register(s, value, onChange, options)
       IN updateValue(s1, s.nextInstance, value)

\* the function useClearTranslateBridge returns, applied
useClearTranslateBridge(s, bridge) ==
  IF bridge = "null" THEN s ELSE clearTranslateBridge(s)

\* the document's side of a manager: whether the container element is a child
\* of document.body, and how many MutationObservers observe it
Doc == [inDocument |-> inDocument, observing |-> observing]

\* disconnect(): mutationObserver.disconnect(); container.remove()
disconnect(doc) == [inDocument |-> doc.inDocument - 1, observing |-> doc.observing - 1]

\* a constructor that appends its new element whether or not the document has
\* a container
Construct_AlwaysAppends(doc) ==
  [inDocument |-> doc.inDocument + 1, observing |-> doc.observing + 1,
   adopted |-> FALSE]

\* the constructor's side in the document: the new element is appended unless
\* getElementById finds a container, which then becomes this.container; the
\* new MutationObserver observes this.container
Construct(doc) ==
  [inDocument |-> IF doc.inDocument = 0 THEN 1 ELSE doc.inDocument,
   observing |-> doc.observing + 1,
   adopted |-> doc.inDocument # 0]

\* new MirrorManager(): empty tables; the container is a new element appended
\* to document.body, or the element with the container's id that is already
\* there, with the children it has
NewMirrorManager(s, present) ==
  [s EXCEPT
     !.observers = EmptyMap, !.valueToMirror = EmptyMap, !.idToEntry = EmptyMap,
     !.idToValue = EmptyMap, !.entries = EmptyMap, !.instanceToMirror = EmptyMap,
     !.instanceToCallback = EmptyMap, !.instanceToMode = EmptyMap,
     !.container = IF present THEN @ ELSE << >>]

----------------------------------------------------------------------------
\* The MutationObserver

\* a mutation record: the mirror element its target lies in and where: "el"
\* the element itself, "inner" a text node that is its child, "deep" a node
\* further down (an element below the mirror element, a text node inside such
\* an element), "gone" a node that a later write to the element has taken out
\* of it, "container" the container itself (mirror id 0)
MutationRecord(mirrorId, target) == [mirrorId |-> mirrorId, target |-> target]

ContainerRecord == MutationRecord(0, "container")

\* findMirrorElement(mutation.target)?.dataset?.mirrorId, 0 when there is none.
\* part_001 walks up from the target (from the parent of a text node) to the
\* first element with a mirror id, stopping at the container; index looks at
\* the target, or at the parent of a text node, and no further
findMirrorElement(v, rec) ==
  CASE rec.target \in {"gone", "container"} -> 0
    [] rec.target = "deep" -> IF v = "part_001" THEN rec.mirrorId ELSE 0
    [] OTHER -> rec.mirrorId

\* the children of the mirror element with that id (an element the container
\* has lost has no callback set left, and its children are not read)
ChildrenOf(cont, mirrorId) ==
  LET k == querySelector(cont, mirrorId) IN IF k = 0 THEN << >> ELSE cont[k].children

\* what the element reports to its callbacks: innerText, or in html mode the
\* markup rebuilt from the template
TranslatedValue(s, id) ==
  IF /\ s.variant = "part_001"
     /\ Has(s.idToEntry, id)
     /\ s.entries[s.idToEntry[id]].mode = "html"
  THEN buildTranslatedHtml(ChildrenOf(s.container, id), s.entries[s.idToEntry[id]])
  ELSE InnerText(ChildrenOf(s.container, id))

\* a notifier that calls every callback of the registry
Notify_Broadcast(s, rec) ==
  LET id == findMirrorElement(s.variant, rec) IN
  IF id = 0 \/ ~Has(s.observers, id) THEN {}
  ELSE {[cb |-> c, arg |-> TranslatedValue(s, id), mirrorId |-> id] :
          c \in UNION Range(s.observers)}

\* the body of mutations.forEach: the callback invocations one record leads to
Notify(s, rec) ==
  LET id == findMirrorElement(s.variant, rec) IN
  IF id = 0 \/ ~Has(s.observers, id) THEN {}
  ELSE {[cb |-> c, arg |-> TranslatedValue(s, id), mirrorId |-> id] :
          c \in s.observers[id]}

\* the MutationObserver callback on a batch of records
mutationObserver(s, records) ==
  UNION {Notify(s, records[j]) : j \in 1..Len(records)}

\* a write of the registry to the children of a mirror element in the
\* container: the nodes below it are replaced, and the observer records it
OwnWrite(records, mirrorId) ==
  Append([j \in 1..Len(records) |->
            IF records[j].mirrorId = mirrorId /\ records[j].target \in {"inner", "deep"}
            THEN MutationRecord(mirrorId, "gone") ELSE records[j]],
         MutationRecord(mirrorId, "el"))

\* container.appendChild(el), el.remove(), container.innerHTML = "": the child
\* list of the container changes and the observer records it with the
\* container as target; one record stands for all such records of a batch
ChildList(records, before, after) ==
  IF /\ recording
     /\ containerRecords
     /\ [k \in 1..Len(before) |-> before[k].mirrorId]
          # [k \in 1..Len(after) |-> after[k].mirrorId]
     /\ \A j \in 1..Len(records) : records[j] # ContainerRecord
  THEN << ContainerRecord >> \o records
  ELSE records

\* whether the sole-owner path of updateValue writes to the element
WritesElement(s, mirrorId, mode, newValue) ==
  /\ querySelector(s.container, mirrorId) # 0
  /\ \/ s.variant = "part_001" /\ mode = "html"
     \/ InnerText(ChildrenOf(s.container, mirrorId)) # newValue

----------------------------------------------------------------------------
\* The calls on the registration API

\* lastOp: the call's name, the path its handler took ("noop" when the call
\* left the registry as it was) and, for a register, whether the call just
\* before it was a register of the same mode and value that created the entry
NoOp == [op |-> "init", path |-> "", twice |-> FALSE]

\* the registry a handler leaves behind becomes the next state
Commit(c) ==
  /\ variant' = c.variant
  /\ observers' = c.observers
  /\ valueToMirror' = c.valueToMirror
  /\ idToEntry' = c.idToEntry
  /\ idToValue' = c.idToValue
  /\ entries' = c.entries
  /\ instanceToMirror' = c.instanceToMirror
  /\ instanceToCallback' = c.instanceToCallback
  /\ instanceToMode' = c.instanceToMode
  /\ container' = c.container
  /\ nextMirror' = c.nextMirror
  /\ nextInstance' = c.nextInstance

\* ids an owner may pass: every id issued so far, and one never issued
KnownIds == {UnknownId} \cup (1..(nextInstance - 1))

InitTables ==
  /\ variant \in Variants
  /\ observers = EmptyMap
  /\ valueToMirror = EmptyMap
  /\ idToEntry = EmptyMap
  /\ idToValue = EmptyMap
  /\ entries = EmptyMap
  /\ instanceToMirror = EmptyMap
  /\ instanceToCallback = EmptyMap
  /\ instanceToMode = EmptyMap
  /\ container = << >>
  /\ nextMirror = 1
  /\ nextInstance = 1
  /\ held = EmptyMap
  /\ lastOp = NoOp
  /\ pending = << >>
  /\ delivered = {}
  /\ mounted = TRUE
  /\ inDocument = Construct([inDocument |-> 0, observing |-> 0]).inDocument
  /\ observing = Construct([inDocument |-> 0, observing |-> 0]).observing
  /\ other = << >>

Init == InitTables /\ recording = FALSE /\ containerRecords = FALSE

\* the call before this one was register(value, _, mode) and created the entry;
\* the id it returned is nextInstance - 1
SecondOfTwo(value, mode) ==
  /\ lastOp.op = "register"
  /\ lastOp.path = "miss"
  /\ Has(held, nextInstance - 1)
  /\ held[nextInstance - 1].value = value
  /\ held[nextInstance - 1].mode = mode

Register(value, onChange, opt) ==
  LET mode == getTranslateMode(variant, opt)
      hit == Has(valueToMirror, getValueKey(variant, mode, value))
  IN
  /\ nextInstance <= MaxInstances
  /\ hit \/ nextMirror <= MaxMirrors
  /\ Commit(Collect(register(Mgr, value, onChange, opt)))
  /\ held' = MapSet(held, nextInstance, [mode |-> mode, value |-> value, cb |-> onChange])
  /\ lastOp' = [op |-> "register", path |-> IF hit THEN "hit" ELSE "miss",
                twice |-> SecondOfTwo(value, mode)]
  /\ pending' = ChildList(pending, container, register(Mgr, value, onChange, opt).container)
  /\ delivered' = {}
  /\ UNCHANGED <<recording, containerRecords, provider>>

UpdateValue(instanceId, newValue) ==
  LET m == Mgr
      path == UpdatePath(m, instanceId, newValue)
      writes == /\ recording
                /\ path = "inplace"
                /\ WritesElement(m, instanceToMirror[instanceId],
                                 InstanceMode(m, instanceId), newValue)
  IN
  /\ path = "fork" => nextMirror <= MaxMirrors
  /\ writes => Len(pending) < MaxPending
  /\ Commit(Collect(updateValue(m, instanceId, newValue)))
  /\ held' = held
  /\ lastOp' = [op |-> "updateValue",
                path |-> IF path \in {"unknown", "same", "nocallback"} THEN "noop"
                         ELSE path,
                twice |-> FALSE]
  /\ pending' = ChildList(IF writes THEN OwnWrite(pending, instanceToMirror[instanceId])
                          ELSE pending,
                          container, updateValue(m, instanceId, newValue).container)
  /\ delivered' = {}
  /\ UNCHANGED <<recording, containerRecords, provider>>

Unregister(instanceId) ==
  LET m == Mgr
      s == Collect(unregister(m, instanceId))
  IN
  /\ Commit(s)
  /\ held' = MapDelete(held, instanceId)
  /\ lastOp' = [op |-> "unregister", path |-> IF s = m THEN "noop" ELSE "detach",
                twice |-> FALSE]
  /\ pending' = ChildList(pending, container, s.container)
  /\ delivered' = {}
  /\ UNCHANGED <<recording, containerRecords, provider>>

ClearTranslateBridge ==
  /\ Commit(Collect(clearTranslateBridge(Mgr)))
  /\ held' = EmptyMap
  /\ lastOp' = [op |-> "clear", path |-> "clear", twice |-> FALSE]
  /\ pending' = ChildList(pending, container, << >>)
  /\ delivered' = {}
  /\ UNCHANGED <<recording, containerRecords, provider>>

\* the external mechanism rewrites a text of a mirror: the text node of a text
\* mirror or a leaf wrapper of an html mirror; the record's target is the
\* element, the text node below it, or a node further down (the mechanism puts
\* the text into an element of its own, or rewrites it inside a leaf wrapper)
Rewrite(k, p, text, target) ==
  /\ recording
  /\ k \in 1..Len(container)
  /\ p \in 1..Len(container[k].children)
  /\ LET n == container[k].children[p] IN
     /\ \/ n.kind = "span"
        \/ /\ n.kind = "text"
           /\ ParentTag(container[k].children, p) \notin HTML_SKIP_TAGS
           /\ ~IsBlank(n.s)
     /\ n.s # text
  /\ container' = [container EXCEPT ![k].children[p].s = text]
  /\ pending' = Append(pending, MutationRecord(container[k].mirrorId, target))
  /\ delivered' = {}
  /\ lastOp' = [op |-> "translate", path |-> target, twice |-> FALSE]
  /\ UNCHANGED <<variant, observers, valueToMirror, idToEntry, idToValue, entries,
                 instanceToMirror, instanceToCallback, instanceToMode,
                 nextMirror, nextInstance, held, recording, containerRecords,
                 provider>>

Translate(k, p, text, target) ==
  /\ Len(pending) < MaxPending
  /\ Rewrite(k, p, text, target)

\* the MutationObserver delivers its records
Dispatch ==
  /\ recording
  /\ pending # << >>
  /\ delivered' = mutationObserver(Mgr, pending)
  /\ pending' = << >>
  /\ lastOp' = [op |-> "dispatch",
                path |-> IF mutationObserver(Mgr, pending) = {} THEN "dropped"
                         ELSE "delivered",
                twice |-> FALSE]
  /\ UNCHANGED <<variant, observers, valueToMirror, idToEntry, idToValue, entries,
                 instanceToMirror, instanceToCallback, instanceToMode, container,
                 nextMirror, nextInstance, held, recording, containerRecords,
                 provider>>

DoRegister == \E value \in Values, onChange \in Callbacks, opt \in Options :
                Register(value, onChange, opt)

DoUpdateValue == \E instanceId \in KnownIds, newValue \in Values :
                   UpdateValue(instanceId, newValue)

DoUnregister == \E instanceId \in KnownIds : Unregister(instanceId)

Next == DoRegister \/ DoUpdateValue \/ DoUnregister \/ ClearTranslateBridge

Spec == Init /\ [][Next]_vars

\* an owner mounts inside the Provider: useShadowTranslation registers its
\* value; held keeps the mode the owner asked for
MountOwner(value, onChange, options) ==
  LET hit == Has(valueToMirror, getValueKey(variant, "text", value)) IN
  /\ mounted
  /\ nextInstance <= MaxInstances
  /\ hit \/ nextMirror <= MaxMirrors
  /\ Commit(Collect(useShadowTranslation(Mgr, "api", value, onChange, options)))
  /\ held' = MapSet(held, nextInstance,
                    [mode |-> getTranslateMode(variant, options), value |-> value,
                     cb |-> onChange])
  /\ lastOp' = [op |-> "mount", path |-> IF hit THEN "hit" ELSE "miss", twice |-> FALSE]
  /\ pending' = ChildList(pending, container,
                          useShadowTranslation(Mgr, "api", value, onChange, options).container)
  /\ delivered' = {}
  /\ UNCHANGED <<recording, containerRecords, provider>>

\* the owner's value changes: the second effect pushes it
PushValue(instanceId, newValue) ==
  /\ Has(held, instanceId)
  /\ UpdateValue(instanceId, newValue)

\* the owner unmounts: the cleanup of the first effect
UnmountOwner(instanceId) ==
  /\ Has(held, instanceId)
  /\ Unregister(instanceId)

\* a hook used outside a Provider: console.warn, nothing else
HookOutside(hook) ==
  /\ Commit(Collect(IF hook = "useShadowTranslation"
                    THEN useShadowTranslation(Mgr, "null", "a", "cb1", "none")
                    ELSE useClearTranslateBridge(Mgr, "null")))
  /\ held' = held
  /\ lastOp' = [op |-> hook, path |-> "warn", twice |-> FALSE]
  /\ pending' = pending
  /\ delivered' = {}
  /\ UNCHANGED <<recording, containerRecords, provider>>

DoMountOwner == \E value \in Values, onChange \in Callbacks, options \in Options :
                  MountOwner(value, onChange, options)

DoMountText == \E value \in Values, onChange \in Callbacks :
                 MountOwner(value, onChange, "none")

DoPushValue == \E instanceId \in DOMAIN held, newValue \in Values :
                 PushValue(instanceId, newValue)

DoUnmountOwner == \E instanceId \in DOMAIN held : UnmountOwner(instanceId)

DoHookOutside == \E hook \in {"useShadowTranslation", "useClearTranslateBridge"} :
                   HookOutside(hook)

\* owners inside one Provider that stays mounted, and hooks used outside it
NextOwners == DoMountOwner \/ DoPushValue \/ DoUnmountOwner \/ ClearTranslateBridge
                \/ DoHookOutside

SpecOwners == Init /\ [][NextOwners]_vars

DoTranslate == \E k \in 1..MaxMirrors, p \in 1..1, text \in Translations,
                   target \in {"el", "inner"} : Translate(k, p, text, target)

\* owners inside one Provider, the external mechanism and the MutationObserver
InitNotify == InitTables /\ recording = TRUE /\ containerRecords = FALSE

NextNotify == DoMountText \/ DoPushValue \/ DoUnmountOwner \/ ClearTranslateBridge
                \/ DoTranslate \/ Dispatch

SpecNotify == InitNotify /\ [][NextNotify]_vars

\* rewrites at any depth below a mirror element, up to MaxBatch of them in one
\* batch of records
DoTranslateBatch == \E k \in 1..MaxMirrors, p \in 1..1, text \in Translations,
                        target \in {"el", "inner", "deep"} :
                      /\ Cardinality({j \in 1..Len(pending) :
                                        pending[j] # ContainerRecord}) < MaxBatch
                      /\ Rewrite(k, p, text, target)

\* owners inside one Provider, the external mechanism and the MutationObserver,
\* with the records of the container's own child list
InitResolve == InitTables /\ recording = TRUE /\ containerRecords = TRUE

NextResolve == DoMountText \/ DoPushValue \/ DoUnmountOwner \/ ClearTranslateBridge
                 \/ DoTranslateBatch \/ Dispatch

SpecResolve == InitResolve /\ [][NextResolve]_vars

\* what the external mechanism writes into a leaf wrapper: translations, one
\* with a character escapeHtml replaces, one that reads like a placeholder
LeafTexts == {"Bonjour", "monde", "a<b", Placeholder(1)}

\* an owner registers a markup value in html mode with the manager
DoRegisterMarkup == \E value \in MarkupValues, onChange \in Callbacks :
                      Register(value, onChange, "html")

\* the external mechanism rewrites the text of one leaf wrapper
DoTranslateLeaf == \E k \in 1..MaxMirrors, d \in MarkupSources, text \in LeafTexts :
                     \E p \in 1..Len(d.body) : Translate(k, p, text, "inner")

\* html mirrors of part_001, the external mechanism and the MutationObserver
InitMarkup == InitNotify /\ variant = "part_001"

NextMarkup == DoRegisterMarkup \/ DoUnmountOwner \/ DoTranslateLeaf \/ Dispatch

SpecMarkup == InitMarkup /\ [][NextMarkup]_vars

\* the Provider unmounts after its owners have: the component has no effect
\* and no cleanup, so nothing of the manager it created is called
TeardownProvider ==
  /\ mounted
  /\ held = EmptyMap
  /\ mounted' = FALSE
  /\ lastOp' = [op |-> "teardown", path |-> "", twice |-> FALSE]
  /\ delivered' = {}
  /\ UNCHANGED <<variant, observers, valueToMirror, idToEntry, idToValue, entries,
                 instanceToMirror, instanceToCallback, instanceToMode, container,
                 nextMirror, nextInstance, held, recording, containerRecords, pending,
                 inDocument, observing, other>>

\* a Provider mounts: useMemo(() => new MirrorManager(), []), whose constructor
\* starts one more observation of the container
ActivateProvider ==
  /\ ~mounted
  /\ observing < MaxObservers
  /\ Commit(NewMirrorManager(Mgr, Construct(Doc).adopted))
  /\ mounted' = TRUE
  /\ inDocument' = Construct(Doc).inDocument
  /\ observing' = Construct(Doc).observing
  /\ held' = EmptyMap
  /\ lastOp' = [op |-> "activate", path |-> IF Construct(Doc).adopted THEN "adopted" ELSE "created",
                twice |-> FALSE]
  /\ delivered' = {}
  /\ UNCHANGED <<recording, containerRecords, pending, other>>

\* Providers mounting and unmounting, with owners inside them
NextProvider == DoMountText \/ DoPushValue \/ DoUnmountOwner
                  \/ TeardownProvider \/ ActivateProvider

SpecProvider == Init /\ [][NextProvider]_vars

\* a manager as kept while the owners of the other Provider call: its tables;
\* the container and the uuid counters are shared
Parked(s, owners) ==
  [mgr |-> [Collect(s) EXCEPT !.container = << >>, !.nextMirror = 0, !.nextInstance = 0],
   held |-> owners]

\* the second manager as it stands on the container now
Other ==
  [other[1].mgr EXCEPT !.container = container, !.nextMirror = nextMirror,
                       !.nextInstance = nextInstance]

\* a second Provider mounts while the first is mounted: its manager adopts the
\* container; its owners call next
ActivateSecond ==
  /\ mounted
  /\ other = << >>
  /\ observing < MaxObservers
  /\ Commit(NewMirrorManager(Mgr, Construct(Doc).adopted))
  /\ other' = << Parked(Mgr, held) >>
  /\ held' = EmptyMap
  /\ inDocument' = Construct(Doc).inDocument
  /\ observing' = Construct(Doc).observing
  /\ lastOp' = [op |-> "activate", path |-> IF Construct(Doc).adopted THEN "adopted" ELSE "created",
                twice |-> FALSE]
  /\ delivered' = {}
  /\ UNCHANGED <<recording, containerRecords, pending, mounted>>

\* the owners of the other Provider call next
Switch ==
  /\ other # << >>
  /\ Commit(Other)
  /\ other' = << Parked(Mgr, held) >>
  /\ held' = other[1].held
  /\ lastOp' = [op |-> "switch", path |-> "", twice |-> FALSE]
  /\ delivered' = {}
  /\ UNCHANGED <<recording, containerRecords, pending, mounted, inDocument, observing>>

\* two Providers mounted at once, with owners inside each
NextShared == DoMountText \/ DoPushValue \/ DoUnmountOwner \/ ClearTranslateBridge
                \/ ActivateSecond \/ Switch

SpecShared == Init /\ [][NextShared]_vars

\* owners that only register and unregister (no value is ever pushed)
NextRegUnreg == DoRegister \/ DoUnregister \/ ClearTranslateBridge

SpecRegUnreg == Init /\ [][NextRegUnreg]_vars

----------------------------------------------------------------------------
\* Vocabulary of the properties

\* the registry's tables, counts and the container's children
registry == <<observers, valueToMirror, idToEntry, idToValue, entries,
              instanceToMirror, instanceToCallback, instanceToMode, container>>

Modes == {"text", "html"}

\* the modes a build knows
ModesOf(v) == IF v = "part_001" THEN Modes ELSE {"text"}

\* the mirror ids the id table of registry s holds
IdTable(s) == IF s.variant = "part_001" THEN DOMAIN s.idToEntry ELSE DOMAIN s.idToValue

\* in registry s, mirror id m has a live entry: an entry object carrying that id
\* is in the id table and in the dedup table
LiveIn(s, m) ==
  /\ m \in IdTable(s)
  /\ \E k \in DOMAIN s.valueToMirror : s.entries[s.valueToMirror[k]].id = m

LiveMirror(m) == LiveIn(Mgr, m)

\* in registry s, callback cb is in the callback set of mirror id m
Listens(s, m, cb) == Has(s.observers, m) /\ cb \in s.observers[m]

\* the mirror ids of the container's children, in document order
NodeIds(cont) == [k \in 1..Len(cont) |-> cont[k].mirrorId]

\* number of children of the container that carry mirror id m
NodesOf(cont, m) == Cardinality({k \in 1..Len(cont) : cont[k].mirrorId = m})

\* the instances the registry has bound to mirror id m
BoundTo(m) == {i \in DOMAIN instanceToMirror : instanceToMirror[i] = m}

----------------------------------------------------------------------------
\* C1 (Dedup).  When register is called twice in a row with the same mode and
\* value, the first call having created the entry, the two ids returned differ,
\* both are bound to that one entry, the entry is in the dedup table under the
\* key of (mode, value) with refCount 2, and the container holds exactly one
\* node for it: the node the first call appended; the second call allocated no
\* mirror id and appended nothing.
C1_Dedup ==
  (lastOp.op = "register" /\ lastOp.twice) =>
    LET i1 == nextInstance - 2
        i2 == nextInstance - 1
        key == getValueKey(variant, held[i2].mode, held[i2].value)
    IN /\ i1 >= 1 /\ i1 # i2
       /\ Has(instanceToMirror, i1) /\ Has(instanceToMirror, i2)
       /\ instanceToMirror[i1] = instanceToMirror[i2]
       /\ LET m == instanceToMirror[i2] IN
          /\ LiveMirror(m)
          /\ Has(valueToMirror, key)
          /\ entries[valueToMirror[key]].id = m
          /\ entries[valueToMirror[key]].count = 2
          /\ NodesOf(container, m) = 1
          /\ container[Len(container)].mirrorId = m
          /\ nextMirror = m + 1

\* a second register of the same mode and value has just returned
C1_Witness ==
  /\ lastOp.op = "register"
  /\ lastOp.twice
  /\ lastOp.path = "hit"
  /\ Has(instanceToMirror, nextInstance - 1)
  /\ NodesOf(container, instanceToMirror[nextInstance - 1]) = 1

\* C9 (updateValue no-op).  A call updateValue(i, newValue) changes no registry
\* table, no refCount and no child of the container when newValue is the value
\* of the entry i is bound to, and when i is not a live instance id (never
\* issued, unregistered, cleared, or unknown to the registry's tables).
C9_UpdateNoOp ==
  \A i \in KnownIds, v \in Values :
    (\/ ~Has(held, i)
     \/ ~Has(instanceToMirror, i)
     \/ /\ Has(entries, instanceToMirror[i])
        /\ entries[instanceToMirror[i]].value = v)
    => Collect(updateValue(Mgr, i, v)) = Mgr

\* updateValue has just returned without a change, in a state where an owner
\* holds an instance bound to a live entry with a callback: the state a call
\* with that instance and its entry's value leaves behind
C9_Witness ==
  /\ lastOp.op = "updateValue"
  /\ lastOp.path = "noop"
  /\ \E i \in DOMAIN held :
       /\ Has(instanceToMirror, i) /\ Has(instanceToCallback, i)
       /\ LiveMirror(instanceToMirror[i])
       /\ entries[instanceToMirror[i]].value \in Values

\* C10 (unregister is idempotent).  A call unregister(i) with an id that no
\* owner holds (it was unregistered before, cleared, or never issued) changes
\* no entry, no refCount, no callback set, no instance table and no node.
C10_UnregisterIdempotent ==
  \A i \in KnownIds :
    ~Has(held, i) => Collect(unregister(Mgr, i)) = Mgr

\* unregister has just returned without a change, in a state where every id
\* issued but one has been released and the entry of the one still held is live:
\* the state a repeated unregister of a released id leaves behind
C10_Witness ==
  /\ lastOp.op = "unregister"
  /\ lastOp.path = "noop"
  /\ nextInstance = 3
  /\ Cardinality(DOMAIN held) = 1
  /\ DOMAIN instanceToMirror = DOMAIN held
  /\ \E j \in DOMAIN held :
       /\ Has(instanceToMirror, j)
       /\ LiveMirror(instanceToMirror[j])
       /\ entries[instanceToMirror[j]].count >= 1

----------------------------------------------------------------------------
\* C2 (Refcount teardown).  With owners that only register and unregister: the
\* dedup table has an entry for (mode, v), and the container one node for it,
\* exactly as long as an owner holds an instance registered with (mode, v): the
\* entry and its node are there after fewer than N unregisters of N
\* registrations and gone after the Nth, for every v, the empty string included.
C2_RefcountTeardown ==
  /\ \A v \in Values, md \in ModesOf(variant) :
       LET key == getValueKey(variant, md, v)
           owners == {i \in DOMAIN held : held[i].value = v /\ held[i].mode = md}
       IN /\ (owners # {}) <=> Has(valueToMirror, key)
          /\ Has(valueToMirror, key) =>
               NodesOf(container, entries[valueToMirror[key]].id) = 1
  /\ \A k \in 1..Len(container) : LiveMirror(container[k].mirrorId)

\* C3 (Instance invariant).  Every instance an owner holds is bound to one live
\* entry, and the callback it was registered with is in that entry's callback
\* set, also when two instances were registered with the same function.
C3_InstanceInvariant ==
  \A i \in DOMAIN held :
    /\ Has(instanceToMirror, i)
    /\ LiveMirror(instanceToMirror[i])
    /\ Listens(Mgr, instanceToMirror[i], held[i].cb)

\* C4 (Refcount invariant).  The refCount of every entry in the tables is the
\* number of instances the registry has bound to it, and is at least 1.
C4_RefcountInvariant ==
  \A r \in DOMAIN entries :
    /\ entries[r].count = Cardinality(BoundTo(entries[r].id))
    /\ entries[r].count >= 1
    /\ LiveMirror(entries[r].id)

\* C5 (unregister).  unregister(i), for every instance i an owner holds (one
\* that an earlier updateValue moved to another entry included), takes one off
\* the refCount of the entry i is bound to, removes the entry and its node when
\* that was the last one, removes i's callback from the entry's callback set
\* (unless another held instance of the entry was registered with the same
\* function) and leaves no bookkeeping for i.
C5_Unregister ==
  \A i \in DOMAIN held :
    LET s == Collect(unregister(Mgr, i)) IN
    /\ Has(instanceToMirror, i)
    /\ LET m == instanceToMirror[i] IN
       /\ LiveMirror(m)
       /\ IF entries[m].count = 1
          THEN ~LiveIn(s, m) /\ NodesOf(s.container, m) = 0
          ELSE /\ LiveIn(s, m)
               /\ s.entries[m].count = entries[m].count - 1
               /\ NodesOf(s.container, m) = 1
       /\ (\A j \in DOMAIN held \ {i} :
             ~(Has(instanceToMirror, j) /\ instanceToMirror[j] = m
               /\ held[j].cb = held[i].cb))
          => ~Listens(s, m, held[i].cb)
    /\ ~Has(s.instanceToMirror, i)
    /\ ~Has(s.instanceToCallback, i)
    /\ ~Has(s.instanceToMode, i)

\* C6 (Sole-owner update).  When a held instance is the only owner of its entry
\* (refCount 1) and updateValue is called with a value for which the dedup table
\* has no entry, the instance stays bound to the same mirror id, the container's
\* nodes are the same nodes, the dedup table has lost the old value and maps the
\* new one to that entry; for every old value, the empty string included.
C6_SoleOwnerUpdate ==
  \A i \in DOMAIN held, v2 \in Values :
    (/\ Has(instanceToMirror, i)
     /\ LiveMirror(instanceToMirror[i])
     /\ entries[instanceToMirror[i]].count = 1
     /\ BoundTo(instanceToMirror[i]) = {i}
     /\ entries[instanceToMirror[i]].value # v2
     /\ ~Has(valueToMirror,
             getValueKey(variant, entries[instanceToMirror[i]].mode, v2)))
    => LET m == instanceToMirror[i]
           e == entries[m]
           s == Collect(updateValue(Mgr, i, v2))
       IN /\ Has(s.instanceToMirror, i) /\ s.instanceToMirror[i] = m
          /\ NodeIds(s.container) = NodeIds(container)
          /\ ~Has(s.valueToMirror, getValueKey(variant, e.mode, e.value))
          /\ Has(s.valueToMirror, getValueKey(variant, e.mode, v2))
          /\ s.valueToMirror[getValueKey(variant, e.mode, v2)] = m
          /\ LiveIn(s, m)
          /\ s.entries[m].value = v2

\* C7 (Shared update forks).  When held instances A and B share the entry of v1
\* (refCount 2) and updateValue(A, v2) is called with no entry for v2, A is
\* afterwards bound to a new entry for v2 with refCount 1 and a node of its own,
\* and B's entry keeps its mirror id, its node and B's callback, with refCount 1.
C7_SharedUpdateForks ==
  \A a \in DOMAIN held, b \in DOMAIN held, v2 \in Values :
    (/\ a # b
     /\ Has(instanceToMirror, a) /\ Has(instanceToMirror, b)
     /\ instanceToMirror[a] = instanceToMirror[b]
     /\ LiveMirror(instanceToMirror[a])
     /\ entries[instanceToMirror[a]].count = 2
     /\ entries[instanceToMirror[a]].value # v2
     /\ ~Has(valueToMirror,
             getValueKey(variant, entries[instanceToMirror[a]].mode, v2)))
    => LET m == instanceToMirror[a]
           s == Collect(updateValue(Mgr, a, v2))
       IN /\ Has(s.instanceToMirror, a)
          /\ s.instanceToMirror[a] # m
          /\ LiveIn(s, s.instanceToMirror[a])
          /\ s.entries[s.instanceToMirror[a]].count = 1
          /\ s.entries[s.instanceToMirror[a]].value = v2
          /\ NodesOf(s.container, s.instanceToMirror[a]) = 1
          /\ LiveIn(s, m)
          /\ s.entries[m].count = 1
          /\ Has(s.instanceToMirror, b) /\ s.instanceToMirror[b] = m
          /\ \A k \in 1..Len(container) :
               container[k].mirrorId = m => s.container[k] = container[k]
          /\ Listens(s, m, held[b].cb)

\* C8 (Update onto an existing key).  When updateValue(i, newValue) finds an
\* entry for (mode, newValue), i leaves its old entry (refCount one less, the
\* entry and its node removed at zero), the target's refCount is one more, i's
\* callback is in the target's callback set, and i stays in the instance tables
\* with its mirror, its callback and its mode.
C8_UpdateOntoExisting ==
  \A i \in DOMAIN held, v \in Values :
    (/\ Has(instanceToMirror, i)
     /\ LiveMirror(instanceToMirror[i])
     /\ entries[instanceToMirror[i]].value # v
     /\ Has(valueToMirror,
            getValueKey(variant, entries[instanceToMirror[i]].mode, v)))
    => LET m == instanceToMirror[i]
           t == valueToMirror[getValueKey(variant, entries[m].mode, v)]
           s == Collect(updateValue(Mgr, i, v))
       IN /\ IF entries[m].count = 1
             THEN ~LiveIn(s, m) /\ NodesOf(s.container, m) = 0
             ELSE LiveIn(s, m) /\ s.entries[m].count = entries[m].count - 1
          /\ LiveIn(s, t)
          /\ s.entries[t].count = entries[t].count + 1
          /\ Listens(s, t, held[i].cb)
          /\ Has(s.instanceToMirror, i) /\ s.instanceToMirror[i] = t
          /\ Has(s.instanceToCallback, i) /\ s.instanceToCallback[i] = held[i].cb
          /\ variant = "part_001" => Has(s.instanceToMode, i)

----------------------------------------------------------------------------
\* C11 (Clear).  clearTranslateBridge leaves a container without children and
\* a registry without entries, callback sets and instances; afterwards
\* unregister and updateValue with any id issued before the clear change
\* nothing, also when a registration was made after the clear (its entry, its
\* node and its instance are left as they are).
C11_Clear ==
  LET s == Collect(clearTranslateBridge(Mgr))
      before == 1..(nextInstance - 1)
  IN /\ s.container = << >>
     /\ s.valueToMirror = EmptyMap /\ IdTable(s) = {} /\ s.entries = EmptyMap
     /\ s.observers = EmptyMap
     /\ s.instanceToMirror = EmptyMap /\ s.instanceToCallback = EmptyMap
     /\ s.instanceToMode = EmptyMap
     /\ lastOp.op = "clear" =>
          /\ Mgr = s
          /\ \A i \in before, v \in Values :
               unregister(s, i) = s /\ updateValue(s, i, v) = s
          /\ \A v1 \in Values, cb \in Callbacks, opt \in Options :
               LET s2 == register(s, v1, cb, opt) IN
               /\ Len(s2.container) = 1
               /\ \A i \in before, v \in Values :
                    unregister(s2, i) = s2 /\ updateValue(s2, i, v) = s2

\* clearTranslateBridge has just returned and has discarded the registrations
\* of two ids
C11_Witness ==
  /\ lastOp.op = "clear"
  /\ nextInstance = 3
  /\ nextMirror >= 2
  /\ container = << >>

\* the nodes that are in the container before and after a call are the same
\* nodes in the same document order: none was taken out and put back
SameNodes(before, after) ==
  LET a == NodeIds(before)
      b == NodeIds(after)
  IN \/ a = b
     \/ SelectSeq(a, LAMBDA m : m \in Range(b)) = SelectSeq(b, LAMBDA m : m \in Range(a))

\* one node for every live entry, no node without a live entry, and every
\* entry object carries the id it was created with
OneNodePerEntry ==
  LET m0 == Mgr IN
  /\ \A r \in DOMAIN entries : entries[r].id = r /\ r < nextMirror
  /\ \A m \in IdTable(m0) : LiveIn(m0, m) => NodesOf(container, m) = 1
  /\ \A k \in 1..Len(container) : LiveIn(m0, container[k].mirrorId)

\* C20 (Mirror-node invariant).  In every state reachable by register,
\* updateValue, unregister and clearTranslateBridge the container holds exactly
\* one node for every live entry and no node whose id has no live entry; the
\* id of an entry never changes, and no call replaces or moves the node of an
\* entry that lives through the call.
C20_MirrorNode == []OneNodePerEntry /\ [][SameNodes(container, container')]_vars

\* two live entries with a node each, after a call that changed the value of
\* one of them in place
C20_Witness ==
  /\ lastOp.op = "updateValue"
  /\ lastOp.path = "inplace"
  /\ Len(container) = 2
  /\ \A k \in 1..Len(container) : LiveMirror(container[k].mirrorId)

----------------------------------------------------------------------------
\* the records of mutations that lie inside the node of mirror id x
RecordsIn(x) == {j \in 1..Len(pending) : pending[j].mirrorId = x
                                           /\ pending[j].target # "gone"}

\* C12 (Notification isolation).  For any two distinct mirror entries X and Y,
\* a mutation detected inside X's node never leads to the invocation of a
\* callback that is attached only to Y: every invocation a record of X leads to
\* is for X, of a callback in X's callback set, and so were the invocations
\* the last dispatch made.
C12_NotificationIsolation ==
  /\ \A j \in 1..Len(pending) :
       LET x == pending[j].mirrorId IN
       \A inv \in Notify(Mgr, pending[j]) :
         /\ inv.mirrorId = x
         /\ Listens(Mgr, x, inv.cb)
         /\ \A y \in DOMAIN observers \ {x} :
              ~(inv.cb \in observers[y] /\ ~Listens(Mgr, x, inv.cb))
  /\ lastOp.op = "dispatch" =>
       \A inv \in delivered :
         /\ Listens(Mgr, inv.mirrorId, inv.cb)
         /\ \A y \in DOMAIN observers \ {inv.mirrorId} :
              ~(inv.cb \in observers[y] /\ ~Listens(Mgr, inv.mirrorId, inv.cb))

\* a dispatch has just invoked the callbacks of one mirror while another
\* mirror has a callback that the first has not
C12_Witness ==
  /\ lastOp.op = "dispatch"
  /\ \E inv \in delivered, y \in DOMAIN observers :
       /\ y # inv.mirrorId
       /\ observers[y] \ observers[inv.mirrorId] # {}

\* C13 (Notification fan-out).  Whenever a mutation is detected inside the
\* node of entry X, the dispatch invokes the callback of every instance an
\* owner holds and the registry has bound to X, with the text the mirror then
\* shows; no such instance is skipped, whatever calls came before.
C13_FanOut ==
  \A x \in DOMAIN idToValue \cup DOMAIN idToEntry :
    (RecordsIn(x) # {} /\ LiveMirror(x)) =>
      \A i \in DOMAIN held :
        (Has(instanceToMirror, i) /\ instanceToMirror[i] = x) =>
          [cb |-> held[i].cb, arg |-> InnerText(ChildrenOf(container, x)),
           mirrorId |-> x] \in mutationObserver(Mgr, pending)

\* C18 (Cancellation).  When unregister(i) runs after a mutation inside the
\* node of i's mirror and before the dispatch of its record, the dispatch
\* makes no invocation for a mirror without a callback set and does not invoke
\* i's callback (unless another held instance of that mirror was registered
\* with the same function).
C18_Cancellation ==
  \A i \in DOMAIN held :
    (Has(instanceToMirror, i) /\ RecordsIn(instanceToMirror[i]) # {}) =>
      LET x == instanceToMirror[i]
          s == Collect(unregister(Mgr, i))
          others == {k \in DOMAIN held \ {i} :
                       /\ Has(instanceToMirror, k) /\ instanceToMirror[k] = x
                       /\ held[k].cb = held[i].cb}
      IN \A inv \in mutationObserver(s, pending) :
           /\ Has(s.observers, inv.mirrorId)
           /\ (inv.mirrorId = x /\ inv.cb = held[i].cb) => others # {}


----------------------------------------------------------------------------
\* C14  Mode resolution through the registration API (part_001, the build
\* with modes): from every reachable state, api.register(value, cb, options)
\* with options asking for html binds the instance it returns to an entry of
\* mode html whose template and textCount are set, and a register without
\* options binds it to an entry of mode text.

C14_ModeResolution ==
  (variant = "part_001" /\ mounted /\ nextInstance <= MaxInstances) =>
    \A value \in Values, cb \in Callbacks, options \in Options :
      LET s == api_register(Mgr, value, cb, options)
          e == s.entries[s.instanceToMirror[nextInstance]]
      IN IF options = "html"
         THEN /\ e.mode = "html"
              /\ e.template = buildHtmlMirror(value).template
              /\ e.textCount = buildHtmlMirror(value).textCount
         ELSE e.mode = "text"


----------------------------------------------------------------------------
\* C15  Markup round-trip: what a dispatch delivers for an html mirror is the
\* original markup with its element structure unchanged and each translatable
\* text leaf replaced by the escaped text its wrapper holds at the dispatch;
\* for `<b>Hello</b> world` with the wrappers rewritten to `Bonjour` and
\* `monde` it is `<b>Bonjour</b> monde`.

RECURSIVE RebuiltFrom(_, _)
\* the nodes of a mirror serialised with each leaf wrapper replaced by the
\* escaped text it holds
RebuiltFrom(children, i) ==
  IF i > Len(children) THEN << >>
  ELSE (IF children[i].kind = "span" THEN escapeHtml(Chars(children[i].s))
        ELSE SerializeFrom(<<children[i]>>, 1))
       \o RebuiltFrom(children, i + 1)

C15_MarkupRoundTrip ==
  lastOp.op = "dispatch" =>
    \A inv \in delivered :
      LET e == entries[idToEntry[inv.mirrorId]]
          children == ChildrenOf(container, inv.mirrorId)
      IN e.mode = "html" =>
           /\ inv.arg = Join(RebuiltFrom(children, 1))
           /\ (/\ e.value = "<b>Hello</b> world"
               /\ children[2].s = "Bonjour"
               /\ children[4].s = "monde") => inv.arg = "<b>Bonjour</b> monde"


----------------------------------------------------------------------------
\* C16  Provider teardown: once the Provider has unmounted, the observation is
\* stopped and the container is out of the document;
\* and whenever a Provider is mounted, through any number of activations and
\* teardowns, the only observation is its own and the container it starts
\* with holds no node of an earlier cycle.

C16_ProviderTeardown ==
  /\ ~mounted => /\ inDocument = 0
                 /\ observing = 0
  /\ mounted => observing = 1
  /\ lastOp.op = "activate" => container = << >>


----------------------------------------------------------------------------
\* C17  Owner lifecycle through useShadowTranslation: an owner that has mounted,
\* pushed any values and unmounted has no instance and no callback left in the
\* instance tables and no share in any refCount (after an unmount a refCount
\* counts mounted owners bound to the entry only); when no owner is mounted the registry has
\* no entry, no callback set, and the container has no mirror node.

C17_OwnerLifecycle ==
  /\ \A i \in 1..(nextInstance - 1) :
       ~Has(held, i) => ~Has(instanceToMirror, i) /\ ~Has(instanceToCallback, i)
  /\ lastOp.op = "unregister" =>
       \A r \in DOMAIN entries :
         entries[r].count <= Cardinality(BoundTo(entries[r].id) \cap DOMAIN held)
  /\ held = EmptyMap =>
       /\ entries = EmptyMap
       /\ valueToMirror = EmptyMap
       /\ observers = EmptyMap
       /\ container = << >>


----------------------------------------------------------------------------
\* C19  Hooks outside a Provider: from every reachable state of the registry,
\* useShadowTranslation without a bridge, whatever its arguments, and the
\* function useClearTranslateBridge returns without a bridge leave every table,
\* every refCount and the container as they are; the step of such a hook is
\* the one that warns.

C19_OutsideProvider ==
  /\ \A value \in Values, onChange \in Callbacks, options \in Options :
       useShadowTranslation(Mgr, "null", value, onChange, options) = Mgr
  /\ useClearTranslateBridge(Mgr, "null") = Mgr
  /\ lastOp.path = "warn" <=>
       lastOp.op \in {"useShadowTranslation", "useClearTranslateBridge"}

\* a hook was used outside the Provider while owners inside it hold two mirrors
C19_Witness ==
  /\ lastOp.path = "warn"
  /\ lastOp.op = "useShadowTranslation"
  /\ Len(container) = 2
  /\ Cardinality(DOMAIN held) = 2


----------------------------------------------------------------------------
\* C21  Reconstruction is a substitution by placeholder identity: the value
\* built for an html entry with textCount n is its template in which every
\* occurrence of placeholder i, for i in [0, n), is replaced by the escaped
\* text of the wrapper with index i, or by nothing when the mirror has no such
\* wrapper; a text put in for one leaf is not rewritten for another leaf, and
\* the order of the wrappers in the mirror does not matter.  Stated of what a
\* dispatch delivers and of the mirror's children rearranged: reversed, and
\* with one wrapper taken out.

\* the text of the wrapper with index i among the children, "" without one
WrapperText(children, i) ==
  LET at == {p \in 1..Len(children) : children[p].kind = "span" /\ children[p].id = i}
  IN IF at = {} THEN "" ELSE children[CHOOSE p \in at : \A q \in at : q <= p].s

RECURSIVE SubstituteAll(_, _, _)
\* the template with every placeholder below n replaced, in one pass, by the
\* escaped text of its wrapper
SubstituteAll(template, children, n) ==
  IF template = << >> THEN << >>
  ELSE LET piece == Head(template)
           ids == {i \in 0..(n - 1) : piece = Placeholder(i)}
       IN (IF ids = {} THEN << piece >>
           ELSE escapeHtml(Chars(WrapperText(children, CHOOSE i \in ids : TRUE))))
          \o SubstituteAll(Tail(template), children, n)

\* the children of a mirror as they are, in reverse order, and with the
\* wrapper of one index taken out
Arrangements(children) ==
  {children, [p \in 1..Len(children) |-> children[Len(children) + 1 - p]]}
    \cup {SelectSeq(children, LAMBDA c : ~(c.kind = "span" /\ c.id = i)) :
            i \in 0..Len(children)}

C21_SubstitutionByIdentity ==
  /\ \A k \in 1..Len(container) :
       LET id == container[k].mirrorId IN
       (Has(idToEntry, id) /\ entries[idToEntry[id]].mode = "html") =>
         LET e == entries[idToEntry[id]] IN
         \A c \in Arrangements(container[k].children) :
           buildTranslatedHtml(c, e) = Join(SubstituteAll(e.template, c, e.textCount))
  /\ lastOp.op = "dispatch" =>
       \A inv \in delivered :
         LET e == entries[idToEntry[inv.mirrorId]] IN
         e.mode = "html" =>
           inv.arg = Join(SubstituteAll(e.template,
                                        ChildrenOf(container, inv.mirrorId), e.textCount))


----------------------------------------------------------------------------
\* C22  Extraction: for every markup value registered in html mode, the leaves
\* taken are, in document order, all text nodes that are not empty, not
\* whitespace only and not inside a script, style or noscript element at any
\* depth; leaf i is a wrapper with index i in the mirror and placeholder i in the
\* template, and textCount is the number of leaves.

\* the positions of the text nodes the statement counts as translatable
TranslatableLeaves(nodes) ==
  SelectSeq([p \in 1..Len(nodes) |-> p],
            LAMBDA p : /\ nodes[p].kind = "text"
                       /\ ~IsBlank(nodes[p].s)
                       /\ \A j \in 1..Len(OpenTags(nodes, p - 1)) :
                            OpenTags(nodes, p - 1)[j] \notin HTML_SKIP_TAGS)

----------------------------------------------------------------------------
\* C23  Notifier resolution: every record of a batch resolves to the mirror
\* element its target is or lies in, at any depth below it; a record of the
\* container itself, and one whose target has been taken out of its mirror,
\* resolve to no mirror; the batch invokes, for each mirror a record resolves to
\* and that still has a callback set, exactly that set's callbacks, whatever
\* else the batch holds.

\* the mirror ids the records of the queue lie in or at
MirrorsMutated ==
  {pending[j].mirrorId : j \in {q \in 1..Len(pending) :
                                  pending[q].target \in {"el", "inner", "deep"}}}

C23_NotifierResolution ==
  /\ \A j \in 1..Len(pending) :
       findMirrorElement(variant, pending[j]) =
         IF pending[j].target \in {"el", "inner", "deep"}
         THEN pending[j].mirrorId ELSE 0
  /\ mutationObserver(Mgr, pending) =
       UNION {{[cb |-> c, arg |-> TranslatedValue(Mgr, x), mirrorId |-> x] :
                 c \in observers[x]} : x \in MirrorsMutated \cap DOMAIN observers}


----------------------------------------------------------------------------
\* C24  Single container: through any number of Provider activations and
\* unmounts the document holds exactly one element with the container's id;
\* an activation that finds it adopts it, with its children, attaches no second
\* one, and the observer it starts observes that element.

C24_SingleContainer ==
  /\ inDocument = 1
  /\ Construct(Doc).inDocument = 1
  /\ Construct(Doc).adopted
  /\ Construct(Doc).observing = observing + 1
  /\ NewMirrorManager(Mgr, Construct(Doc).adopted).container = container
  /\ lastOp.op = "activate" => lastOp.path = "adopted" /\ observing >= 2

\* a third Provider has been activated on the container of the first
C24_Witness == lastOp.op = "activate" /\ observing = 3 /\ inDocument = 1


----------------------------------------------------------------------------
\* C25  The registry's own writes invoke no callback: from every reachable
\* state, the records that a mount (register), an updateValue on any path, an
\* unregister or a clearTranslateBridge leaves by what it writes to the
\* container, dispatched against the registry as the call left it, invoke
\* nothing.

\* the mirror element updateValue(i, v) writes to on its sole-owner path, 0 when
\* it writes to none
WrittenInPlace(s, i, v) ==
  IF /\ UpdatePath(s, i, v) = "inplace"
     /\ WritesElement(s, s.instanceToMirror[i], InstanceMode(s, i), v)
  THEN s.instanceToMirror[i] ELSE 0

\* the records a call leaves that took the registry from s to s2 and wrote to
\* the mirror element written (0: to none)
OwnRecords(s, s2, written) ==
  ChildList(IF written # 0 THEN OwnWrite(<< >>, written) ELSE << >>,
            s.container, s2.container)

\* the call's own records invoke nothing
Silent(s, s2, written) == mutationObserver(Collect(s2), OwnRecords(s, s2, written)) = {}

C25_OwnWritesSilent ==
  /\ \A value \in Values, onChange \in Callbacks :
       Silent(Mgr, useShadowTranslation(Mgr, "api", value, onChange, "none"), 0)
  /\ \A i \in DOMAIN held :
       /\ Silent(Mgr, unregister(Mgr, i), 0)
       /\ \A v \in Values : Silent(Mgr, updateValue(Mgr, i, v), WrittenInPlace(Mgr, i, v))
  /\ Silent(Mgr, clearTranslateBridge(Mgr), 0)


----------------------------------------------------------------------------
\* C26  Two managers on one container do not interfere: while a second manager
\* is active, no register, updateValue, unregister or clearTranslateBridge of
\* the manager whose owner calls removes or rewrites a mirror node of the other
\* manager, its disconnect leaves the container in the document, and a mutation
\* in or below a mirror node of the other manager invokes none of its callbacks.

\* the mirror nodes in a container that belong to manager s
NodesOwnedBy(s, cont) == SelectSeq(cont, LAMBDA n : n.mirrorId \in IdTable(s))

\* the call that leaves the container as cont keeps the other manager's nodes
KeepsOthers(cont) == NodesOwnedBy(Other, cont) = NodesOwnedBy(Other, container)

C26_SharedContainer ==
  other # << >> =>
    /\ \A value \in Values, onChange \in Callbacks :
         KeepsOthers(useShadowTranslation(Mgr, "api", value, onChange, "none").container)
    /\ \A i \in 1..(nextInstance - 1) :
         /\ KeepsOthers(unregister(Mgr, i).container)
         /\ \A v \in Values : KeepsOthers(updateValue(Mgr, i, v).container)
    /\ KeepsOthers(clearTranslateBridge(Mgr).container)
    /\ disconnect(Doc).inDocument >= 1
    /\ \A k \in 1..Len(container), target \in {"el", "inner", "deep"} :
         container[k].mirrorId \in IdTable(Other) =>
           Notify(Mgr, MutationRecord(container[k].mirrorId, target)) = {}


----------------------------------------------------------------------------
\* C27  Table consistency: in every reachable state the dedup table and the id
\* table hold the same entries; every entry of the dedup table is stored under
\* the key of its own mode and value and under no other key, and the id table
\* has it under its own id (index: its id under its value); entries of the
\* same value and different modes are different entries; the callback table
\* has sets for ids of live entries only; the mode recorded for an instance is
\* the mode of the entry it is bound to.

\* the entry objects the dedup table refers to
Deduped == Range(valueToMirror)

C27_TableConsistency ==
  /\ {entries[r].id : r \in Deduped} = IdTable(Mgr)
  /\ variant = "part_001" => Range(idToEntry) = Deduped
  /\ \A k \in DOMAIN valueToMirror :
       LET e == entries[valueToMirror[k]] IN
       /\ k = getValueKey(variant, e.mode, e.value)
       /\ \A k2 \in DOMAIN valueToMirror : valueToMirror[k2] = valueToMirror[k] => k2 = k
       /\ IF variant = "part_001"
          THEN Has(idToEntry, e.id) /\ idToEntry[e.id] = valueToMirror[k]
          ELSE Has(idToValue, e.id) /\ idToValue[e.id] = e.value
  /\ \A r1, r2 \in Deduped :
       (entries[r1].value = entries[r2].value /\ entries[r1].mode # entries[r2].mode)
         => entries[r1].id # entries[r2].id
  /\ \A m \in DOMAIN observers : LiveMirror(m)
  /\ \A i \in DOMAIN instanceToMirror :
       (variant = "part_001" /\ Has(idToEntry, instanceToMirror[i])) =>
         /\ Has(instanceToMode, i)
         /\ instanceToMode[i] = entries[idToEntry[instanceToMirror[i]]].mode

\* a registry with a text entry and an html entry of one value, one of them
\* reached by an updateValue
C27_Witness ==
  /\ lastOp.op = "updateValue"
  /\ lastOp.path # "noop"
  /\ \E r1, r2 \in Deduped :
       entries[r1].value = entries[r2].value /\ entries[r1].mode # entries[r2].mode

====
